---- MODULE Spec2Model ----
(***************************************************************************)
(* fly_in: reverse-cost BFS mapper (reverse_cost_bfs.py) and the turn      *)
(* based drone scheduler (solver.py), driven as in main.py.                *)
(*                                                                         *)
(* Names.  A hub name is the 1-tuple <<h>>; the name of a connection is    *)
(* the 2-tuple <<a, b>> of its endpoints in declaration order, i.e. the    *)
(* string "a->b".  A name contains the edge marker "->" iff its length     *)
(* is 2.  Drone "D<i>" is the integer i.                                   *)
(***************************************************************************)
EXTENDS Integers, Sequences, FiniteSets, TLC

VARIABLES
    map,        \* the Map handed to ReverseCostBFS and Solver
    pc,         \* "bfs" | "nopath" | "loop" | "drones" | "done" | "abort"
    paths,      \* ReverseCostBFS.run: name -> list of Path
    queue,      \* ReverseCostBFS.run: FIFO of Path
    visited,    \* ReverseCostBFS.run: set of hub names
    dequeues,   \* number of queue.pop(0) performed so far
    location,   \* Solver.drones[i].location
    tmp_state,  \* Solver.run: name -> list of drone records
    reserved,   \* Solver.run: restricted hub name -> list of 0
    con_used,   \* Solver.run: connection name -> list of drones, this turn
    states,     \* Solver.run: the history (states[1] is history[0])
    di,         \* position of the "for drone in self.drones" loop
    last,       \* what the last scheduler step did (observation only)
    inserted,   \* the lists of paths in the order of their appends
                \* (observation only)
    turns,      \* iterations of the while loop of Solver.run begun so far
                \* (observation only)
    output,     \* the lines _export_output writes to output.txt
    ppc,        \* MapParser.extract: "lines" | "accepted" | "error"
    nb_drones,  \* MapParser.extract: nb_drones, -1 until its line is read
    start,      \* MapParser.extract: index in hub_list of start, 0 for None
    end,        \* MapParser.extract: index in hub_list of end, 0 for None
    hub_list,   \* MapParser.extract: the hubs added so far
    conn_list,  \* MapParser.extract: the connection records added so far
    error,      \* the message of the ParsingError raised, "" for none
    field,      \* MapParser.field of the line last split
    parameters, \* MapParser.parameters of the line last split
    nlines      \* lines read so far (observation only)

vars == <<map, pc, paths, queue, visited, dequeues, location, tmp_state,
          reserved, con_used, states, di, last, inserted, turns, output,
          ppc, nb_drones, start, end, hub_list, conn_list, error, field,
          parameters, nlines>>

ParserVars == <<ppc, nb_drones, start, end, hub_list, conn_list, error,
                field, parameters, nlines>>

----------------------------------------------------------------------------
(* Bounds of the explored inputs *)

NHubs == 4
MaxDrones == 3
MaxHubCap == 2
MaxLinkCap == 2
MaxTurns == 12
MaxLines == 6

\* sys.maxsize, cut to the largest integer TLC holds: it is only compared with
\* path costs, which stay far below either value
MaxSize == 2147483647

----------------------------------------------------------------------------
(* map.py and utils.py *)

Hub(n, z, m) == [name |-> <<n>>, zone_type |-> z, max_drones |-> m]

ConnName(c) == <<c.hubs[1].name[1], c.hubs[2].name[1]>>

Connection(h1, h2, cap) == [hubs |-> <<h1, h2>>, max_link_capacity |-> cap]

IsConnName(n) == Len(n) = 2

\* what the pydantic models check: Field(min_length=1) on Hub.name,
\* Field(ge=1) on max_drones, max_link_capacity and nb_drones
HubAccepted(h) == Len(h.name) >= 1 /\ h.max_drones >= 1

ConnectionAccepted(c) ==
    /\ HubAccepted(c.hubs[1])
    /\ HubAccepted(c.hubs[2])
    /\ c.max_link_capacity >= 1

MapAccepted(m) ==
    /\ HubAccepted(m.start)
    /\ HubAccepted(m.end)
    /\ m.nb_drones >= 1
    /\ \A i \in 1..Len(m.hubs) : HubAccepted(m.hubs[i])
    /\ \A i \in 1..Len(m.connections) : ConnectionAccepted(m.connections[i])

get_hub_travel_cost(hub) ==
    CASE hub.zone_type \in {"normal", "priority"} -> 1
      [] hub.zone_type = "restricted" -> 2
      [] OTHER -> -1

\* Counter(names of couple) = Counter(names of c.hubs)
SameEnds(n1, n2, c) ==
    \/ c.hubs[1].name = n1 /\ c.hubs[2].name = n2
    \/ c.hubs[1].name = n2 /\ c.hubs[2].name = n1

\* index of the first connection joining the two names, 0 for None
get_connection(n1, n2, conns) ==
    LET hits == {i \in 1..Len(conns) : SameEnds(n1, n2, conns[i])}
    IN IF hits = {} THEN 0 ELSE CHOOSE i \in hits : \A j \in hits : i <= j

get_connection_by_name(name, conns) ==
    LET hits == {i \in 1..Len(conns) : ConnName(conns[i]) = name}
    IN IF hits = {} THEN 0 ELSE CHOOSE i \in hits : \A j \in hits : i <= j

\* index of the hub of that name, 0 for None
get_hub_by_name(name, hubs) ==
    LET hits == {i \in 1..Len(hubs) : hubs[i].name = name}
    IN IF hits = {} THEN 0 ELSE CHOOSE i \in hits : \A j \in hits : i <= j

HubNames(m) == {m.hubs[i].name : i \in 1..Len(m.hubs)}
ConnNames(m) == {ConnName(m.connections[i]) : i \in 1..Len(m.connections)}

----------------------------------------------------------------------------
(* reverse_cost_bfs.py *)

Path(src, cost) == [src |-> src, cost |-> cost]

RECURSIVE neighboors_from(_, _, _)
neighboors_from(hub, conns, i) ==
    IF i > Len(conns) THEN <<>>
    ELSE LET c == conns[i]
             rest == neighboors_from(hub, conns, i + 1)
         IN IF c.hubs[1] = hub THEN <<c.hubs[2]>> \o rest
            ELSE IF c.hubs[2] = hub THEN <<c.hubs[1]>> \o rest
            ELSE rest

_get_neighboors(m, hub) == neighboors_from(hub, m.connections, 1)

\* mutant: a restricted hub is recorded like any other hub, no waypoint
_save_path_direct(m, dst, ps, path) ==
    LET lst == ps[dst.name]
    IN IF \E k \in 1..Len(lst) : lst[k].src.name = path.src.name
       THEN [ps EXCEPT ![dst.name] =
                [k \in 1..Len(lst) |->
                    IF lst[k].src.name = path.src.name /\ lst[k].cost > path.cost
                    THEN [lst[k] EXCEPT !.cost = path.cost]
                    ELSE lst[k]]]
       ELSE [ps EXCEPT ![dst.name] = Append(lst, path)]

\* the dict after _save_path(dst, paths, path)
_save_path(m, dst, ps, path) ==
    LET lst == ps[dst.name]
    IN IF \E k \in 1..Len(lst) : lst[k].src.name = path.src.name
       THEN [ps EXCEPT ![dst.name] =
                [k \in 1..Len(lst) |->
                    IF lst[k].src.name = path.src.name /\ lst[k].cost > path.cost
                    THEN [lst[k] EXCEPT !.cost = path.cost]
                    ELSE lst[k]]]
       ELSE IF path.src.zone_type = "restricted"
       THEN LET ci == get_connection(dst.name, path.src.name, m.connections)
            IN IF ci = 0 THEN ps
               ELSE LET con == m.connections[ci]
                        syn == [name |-> ConnName(con),
                                zone_type |-> "normal",
                                max_drones |-> con.max_link_capacity]
                        keys == DOMAIN ps \cup {ConnName(con)}
                    IN [n \in keys |->
                           IF n = ConnName(con) THEN <<path>>
                           ELSE IF n = dst.name
                           THEN Append(ps[n], Path(syn, path.cost + 1))
                           ELSE ps[n]]
       ELSE [ps EXCEPT ![dst.name] = Append(lst, path)]

\* mutant: the sort key is the cost alone
KeyLess_costonly(p, q) == p.cost < q.cost

\* sort key (p.cost, p.src.zone_type != "priority")
KeyLess(p, q) ==
    \/ p.cost < q.cost
    \/ p.cost = q.cost /\ p.src.zone_type = "priority"
                       /\ q.src.zone_type # "priority"

\* mutant: x goes before the elements of equal key
RECURSIVE InsertSorted_before(_, _)
InsertSorted_before(x, s) ==
    IF s = <<>> THEN <<x>>
    ELSE IF ~KeyLess(Head(s), x) THEN <<x>> \o s
    ELSE <<Head(s)>> \o InsertSorted_before(x, Tail(s))

\* list.sort is stable: x goes after every element whose key is not greater
RECURSIVE InsertSorted(_, _)
InsertSorted(x, s) ==
    IF s = <<>> THEN <<x>>
    ELSE IF KeyLess(x, Head(s)) THEN <<x>> \o s
    ELSE <<Head(s)>> \o InsertSorted(x, Tail(s))

RECURSIVE SortList(_, _)
SortList(s, n) ==
    IF n = 0 THEN <<>> ELSE InsertSorted(s[n], SortList(s, n - 1))

_sort_paths(ps) == [n \in DOMAIN ps |-> SortList(ps[n], Len(ps[n]))]

\* mutant: the loop does not skip the neighbours already visited
RECURSIVE ScanNeighboors_revisit(_, _, _, _, _, _, _)
ScanNeighboors_revisit(m, path, ns, i, ps, q, vis) ==
    IF i > Len(ns) THEN <<ps, q>>
    ELSE LET n == ns[i]
         IN IF get_hub_travel_cost(n) < 0
            THEN ScanNeighboors_revisit(m, path, ns, i + 1, ps, q, vis)
            ELSE ScanNeighboors_revisit(m, path, ns, i + 1,
                    _save_path(m, n, ps, path),
                    IF path.src.name \notin vis
                    THEN Append(q, Path(n, path.cost + 1)) ELSE q,
                    vis)

\* mutant: the neighbours are enqueued at every dequeue of a hub, not only
\* at the first
RECURSIVE ScanNeighboors_requeue(_, _, _, _, _, _, _)
ScanNeighboors_requeue(m, path, ns, i, ps, q, vis) ==
    IF i > Len(ns) THEN <<ps, q>>
    ELSE LET n == ns[i]
         IN IF n.name \in vis \/ get_hub_travel_cost(n) < 0
            THEN ScanNeighboors_requeue(m, path, ns, i + 1, ps, q, vis)
            ELSE ScanNeighboors_requeue(m, path, ns, i + 1,
                    _save_path(m, n, ps, path),
                    Append(q, Path(n, path.cost + 1)),
                    vis)

\* the "for n in self._get_neighboors(path.src)" loop of run, from index i:
\* the pair <<paths, queue>> it leaves
RECURSIVE ScanNeighboors(_, _, _, _, _, _, _)
ScanNeighboors(m, path, ns, i, ps, q, vis) ==
    IF i > Len(ns) THEN <<ps, q>>
    ELSE LET n == ns[i]
         IN IF n.name \in vis \/ get_hub_travel_cost(n) < 0
            THEN ScanNeighboors(m, path, ns, i + 1, ps, q, vis)
            ELSE ScanNeighboors(m, path, ns, i + 1,
                    _save_path(m, n, ps, path),
                    IF path.src.name \notin vis
                    THEN Append(q, Path(n, path.cost + 1)) ELSE q,
                    vis)

----------------------------------------------------------------------------
(* solver.py *)

Drone(i, loc) == [id |-> i, location |-> loc]

\* list.remove(x): drops the first element equal to x
RECURSIVE RemoveFirst(_, _)
RemoveFirst(s, x) ==
    IF s = <<>> THEN <<>>
    ELSE IF Head(s) = x THEN Tail(s)
    ELSE <<Head(s)>> \o RemoveFirst(Tail(s), x)

\* mutant: the answer is given without recording the reservation
_is_not_fully_reserved_norecord(path, connection, res, current_hub) ==
    IF ~IsConnName(path.src.name) THEN <<TRUE, res>>
    ELSE LET dst == IF connection.hubs[1].name # current_hub.name
                    THEN connection.hubs[1] ELSE connection.hubs[2]
         IN <<Len(res[dst.name]) < dst.max_drones, res>>

\* <<result, reserved>> of _is_not_fully_reserved
_is_not_fully_reserved(path, connection, res, current_hub) ==
    IF ~IsConnName(path.src.name) THEN <<TRUE, res>>
    ELSE LET dst == IF connection.hubs[1].name # current_hub.name
                    THEN connection.hubs[1] ELSE connection.hubs[2]
         IN IF Len(res[dst.name]) < dst.max_drones
            THEN <<TRUE, [res EXCEPT ![dst.name] = Append(@, 0)]>>
            ELSE <<FALSE, res>>

\* mutant: neither the occupancy of the destination nor the usage of the
\* connection is looked at
_is_path_valid_nocap(m, connection, ts, path, cu, res, current_hub) ==
    IF path.src.name = m.end.name THEN <<TRUE, res>>
    ELSE _is_not_fully_reserved(path, connection, res, current_hub)

\* mutant: the goal is held to its max_drones like any other hub
_is_path_valid_goalcap(m, connection, ts, path, cu, res, current_hub) ==
    IF /\ Len(ts[path.src.name]) < path.src.max_drones
       /\ Len(cu[ConnName(connection)]) < connection.max_link_capacity
    THEN _is_not_fully_reserved(path, connection, res, current_hub)
    ELSE <<FALSE, res>>

\* mutant: the occupancy is read in the last recorded state, not in the
\* state of the turn in progress
_is_path_valid_turnstart(m, connection, ts, path, cu, res, current_hub) ==
    IF path.src.name = m.end.name THEN <<TRUE, res>>
    ELSE IF /\ Len(states[Len(states)][path.src.name]) < path.src.max_drones
            /\ Len(cu[ConnName(connection)]) < connection.max_link_capacity
         THEN _is_not_fully_reserved(path, connection, res, current_hub)
         ELSE <<FALSE, res>>

\* <<result, reserved>> of _is_path_valid
_is_path_valid(m, connection, ts, path, cu, res, current_hub) ==
    IF path.src.name = m.end.name THEN <<TRUE, res>>
    ELSE IF /\ Len(ts[path.src.name]) < path.src.max_drones
            /\ Len(cu[ConnName(connection)]) < connection.max_link_capacity
         THEN _is_not_fully_reserved(path, connection, res, current_hub)
         ELSE <<FALSE, res>>

_compute_wait_time(m, ps, ts, best_path) ==
    LET wait_cost == best_path.cost + Len(ts[best_path.src.name])
    IN IF ps[best_path.src.name] = <<>> THEN MaxSize
       ELSE LET next == ps[best_path.src.name][1].src
                ci == get_connection(best_path.src.name, next.name,
                                     m.connections)
            IN IF ci = 0 THEN MaxSize
               ELSE wait_cost - m.connections[ci].max_link_capacity

\* mutant: the connection is looked up by its two ends only, never by the
\* name a waypoint carries
_get_current_connection_byends(m, current_hub, path) ==
    get_connection(current_hub.name, path.src.name, m.connections)

\* index of the connection a candidate is resolved to, 0 where the code exits
_get_current_connection(m, current_hub, path) ==
    LET ci == get_connection(current_hub.name, path.src.name, m.connections)
    IN IF ci # 0 THEN ci
       ELSE get_connection_by_name(path.src.name, m.connections)

\* mutant: the first valid candidate is committed, the wait time is not
\* weighed against its cost
RECURSIVE TryCandidates_nowait(_, _, _, _, _, _, _)
TryCandidates_nowait(m, ps, ts, cu, res, current_hub, idx) ==
    LET cands == ps[current_hub.name]
    IN IF idx > Len(cands) THEN [idx |-> 0, conn |-> 0, reserved |-> res]
       ELSE LET path == cands[idx]
                ci == _get_current_connection(m, current_hub, path)
                v == _is_path_valid(m, m.connections[ci], ts, path, cu, res,
                                    current_hub)
            IN IF ci = 0 THEN [idx |-> -1, conn |-> 0, reserved |-> res]
               ELSE IF ~v[1]
               THEN TryCandidates_nowait(m, ps, ts, cu, v[2], current_hub,
                                         idx + 1)
               ELSE [idx |-> idx, conn |-> ci, reserved |-> v[2]]

\* the candidate loop of run for a drone standing on current_hub, from index
\* idx: the index committed (0 when the drone stays, -1 when
\* _get_current_connection exits) and the reserved table
RECURSIVE TryCandidates(_, _, _, _, _, _, _)
TryCandidates(m, ps, ts, cu, res, current_hub, idx) ==
    LET cands == ps[current_hub.name]
    IN IF idx > Len(cands) THEN [idx |-> 0, conn |-> 0, reserved |-> res]
       ELSE LET path == cands[idx]
                ci == _get_current_connection(m, current_hub, path)
                v == _is_path_valid(m, m.connections[ci], ts, path, cu, res,
                                    current_hub)
            IN IF ci = 0 THEN [idx |-> -1, conn |-> 0, reserved |-> res]
               ELSE IF ~v[1]
               THEN TryCandidates(m, ps, ts, cu, v[2], current_hub, idx + 1)
               ELSE IF idx # 1 /\ _compute_wait_time(m, ps, ts, cands[1])
                                    < path.cost
               THEN TryCandidates(m, ps, ts, cu, v[2], current_hub, idx + 1)
               ELSE [idx |-> idx, conn |-> ci, reserved |-> v[2]]

\* tmp_state after _move_drone
MovedState(ts, path, d, loc) ==
    [n \in DOMAIN ts |->
        LET left == IF n = loc THEN RemoveFirst(ts[n], Drone(d, loc))
                    ELSE ts[n]
        IN IF n = path.src.name
           THEN Append(left, Drone(d, path.src.name)) ELSE left]

\* states[0] holds the Drone objects of self.drones themselves, so the
\* assignment to drone.location shows through it
AliasedHistory(h, d, newloc) ==
    [h EXCEPT ![1] =
        [n \in DOMAIN h[1] |->
            [k \in 1..Len(h[1][n]) |->
                IF h[1][n][k].id = d
                THEN [h[1][n][k] EXCEPT !.location = newloc]
                ELSE h[1][n][k]]]]

\* mutant: states.append(tmp_state), every state appended is the one dict
\* the later turns go on changing
RecordState_shallow(h, ts) ==
    [k \in 1..(Len(h) + 1) |-> IF k = 1 THEN h[1] ELSE ts]

\* states.append(deepcopy(tmp_state))
RecordState(h, ts) == Append(h, ts)

EmptyLists(keys) == [n \in keys |-> <<>>]

\* the keys of a state in the order of the dict hub_state | con_state
StateKeys(m) ==
    [i \in 1..Len(m.hubs) |-> m.hubs[i].name]
        \o [i \in 1..Len(m.connections) |-> ConnName(m.connections[i])]

\* the first key, from index i, whose bucket lists the drone; <<>> for ""
RECURSIVE _find_previous_location(_, _, _, _)
_find_previous_location(keys, i, state, drone_id) ==
    IF i > Len(keys) THEN <<>>
    ELSE IF \E k \in 1..Len(state[keys[i]]) : state[keys[i]][k].id = drone_id
    THEN keys[i]
    ELSE _find_previous_location(keys, i + 1, state, drone_id)

\* mutant: the token of a drone is written whether it moved or not
RECURSIVE TurnLine_all(_, _, _, _)
TurnLine_all(keys, i, cur, prev) ==
    IF i > Len(keys) THEN <<>>
    ELSE [k \in 1..Len(cur[keys[i]]) |-> <<cur[keys[i]][k].id, keys[i]>>]
            \o TurnLine_all(keys, i + 1, cur, prev)

\* the tokens <<id, location>> of one line of the log, from key index i
RECURSIVE TurnLine(_, _, _, _)
TurnLine(keys, i, cur, prev) ==
    IF i > Len(keys) THEN <<>>
    ELSE LET Moved(d) ==
                 keys[i] # _find_previous_location(keys, 1, prev, d.id)
             sel == SelectSeq(cur[keys[i]], Moved)
         IN [k \in 1..Len(sel) |-> <<sel[k].id, keys[i]>>]
               \o TurnLine(keys, i + 1, cur, prev)

\* the lines written by _export_output(states)
_export_output(m, h) ==
    [i \in 1..(Len(h) - 1) |-> TurnLine(StateKeys(m), 1, h[i + 1], h[i])]

----------------------------------------------------------------------------
(* The maps explored.                                                      *)
(*                                                                         *)
(* ParamMaps: NHubs hubs, hub 1 the start hub and hub NHubs the end hub,   *)
(* both normal; the other hubs take every zone type and every capacity     *)
(* up to MaxHubCap (a blocked hub is never a candidate, so its capacity is *)
(* never read: it is 1).  The start hub holds MaxHubCap drones, so maps    *)
(* with more drones than the start hub holds, which Map accepts, are       *)
(* among them.  Every pair of hubs is joined by at most one connection     *)
(* (map_parser.py refuses a repeated one), listed in the order of          *)
(* AllPairs; all connections of a map have the same capacity.              *)
(*                                                                         *)
(* NamedMaps: the map built in main.py and maps with more hubs, drones or  *)
(* mixed link capacities than ParamMaps holds.                             *)

Zones == {"normal", "priority", "restricted", "blocked"}

RECURSIVE PairsFrom(_, _, _)
PairsFrom(a, b, n) ==
    IF a >= n THEN <<>>
    ELSE IF b > n THEN PairsFrom(a + 1, a + 2, n)
    ELSE <<<<a, b>>>> \o PairsFrom(a, b + 1, n)

AllPairs == PairsFrom(1, 2, NHubs)

RECURSIVE ConnsFrom(_, _, _, _)
ConnsFrom(hs, pr, lc, i) ==
    IF i > Len(AllPairs) THEN <<>>
    ELSE LET rest == ConnsFrom(hs, pr, lc, i + 1)
         IN IF ~pr[i] THEN rest
            ELSE <<Connection(hs[AllPairs[i][1]], hs[AllPairs[i][2]], lc)>>
                 \o rest

MkMap(z, mc, pr, lc, nb) ==
    LET hs == [h \in 1..NHubs |->
                 Hub(h, IF h \in {1, NHubs} THEN "normal" ELSE z[h],
                     IF h = NHubs THEN 1
                     ELSE IF h = 1 THEN MaxHubCap ELSE mc[h])]
    IN [start |-> hs[1], end |-> hs[NHubs], nb_drones |-> nb,
        hubs |-> hs, connections |-> ConnsFrom(hs, pr, lc, 1)]

ParamMaps ==
    {MkMap(z, mc, pr, lc, nb) :
        z \in [2..(NHubs - 1) -> Zones],
        mc \in [2..(NHubs - 1) -> 1..MaxHubCap],
        pr \in [1..Len(AllPairs) -> BOOLEAN],
        lc \in 1..MaxLinkCap,
        nb \in 1..MaxDrones}

Tidy(m) ==
    \A i \in 1..Len(m.hubs) :
        m.hubs[i].zone_type = "blocked" => m.hubs[i].max_drones = 1

\* a map from the list of <<zone, max_drones>> of its hubs (the first is the
\* start hub, the last the end hub) and the list of <<a, b, capacity>> of
\* its connections
NamedMap(hl, cl, nb) ==
    LET hs == [h \in 1..Len(hl) |-> Hub(h, hl[h][1], hl[h][2])]
    IN [start |-> hs[1], end |-> hs[Len(hl)], nb_drones |-> nb,
        hubs |-> hs,
        connections |-> [i \in 1..Len(cl) |->
                            Connection(hs[cl[i][1]], hs[cl[i][2]], cl[i][3])]]

\* main.py: start, path_a, path_b (priority), junction, goal; 3 drones
ForkMap ==
    NamedMap(<< <<"normal", 3>>, <<"normal", 1>>, <<"priority", 1>>,
                <<"normal", 1>>, <<"normal", 1>> >>,
             << <<4, 2, 1>>, <<5, 2, 1>>, <<4, 3, 1>>, <<1, 4, 1>>,
                <<5, 3, 1>> >>, 3)

\* start (5 drones) joined to the goal by one connection of capacity 2
NarrowLinkMap ==
    NamedMap(<< <<"normal", 5>>, <<"normal", 1>> >>, << <<1, 2, 2>> >>, 5)

\* start - restricted (1 drone) - restricted - goal, a wide first link
ChainMap ==
    NamedMap(<< <<"normal", 3>>, <<"restricted", 1>>, <<"restricted", 2>>,
                <<"normal", 3>> >>,
             << <<2, 1, 2>>, <<2, 3, 1>>, <<3, 4, 1>> >>, 3)

\* two routes from the start that meet on a restricted hub of capacity 1
CrossMap ==
    NamedMap(<< <<"normal", 4>>, <<"restricted", 2>>, <<"restricted", 1>>,
                <<"normal", 1>>, <<"normal", 1>>, <<"normal", 1>> >>,
             << <<2, 5, 1>>, <<6, 3, 1>>, <<4, 1, 1>>, <<5, 6, 1>>,
                <<1, 2, 2>>, <<4, 3, 1>>, <<2, 3, 1>> >>, 4)

\* start - restricted - goal, one drone
TransitMap ==
    NamedMap(<< <<"normal", 1>>, <<"restricted", 1>>, <<"normal", 1>> >>,
             << <<1, 2, 1>>, <<2, 3, 1>> >>, 1)

\* start, a blocked hub and a normal hub both joined to the start and to
\* the goal, one drone
DetourMap ==
    NamedMap(<< <<"normal", 1>>, <<"blocked", 1>>, <<"normal", 1>>,
                <<"normal", 1>> >>,
             << <<1, 2, 1>>, <<1, 3, 1>>, <<2, 4, 1>>, <<3, 4, 1>> >>, 1)

\* start joined to an end hub whose zone is blocked (map_parser.py reads the
\* zone of the end hub like that of any hub), one drone
BlockedGoalMap ==
    NamedMap(<< <<"normal", 1>>, <<"blocked", 1>> >>, << <<1, 2, 1>> >>, 1)

\* start - junction; the junction (hub 5) is joined to the goal and to a
\* normal, a priority and a second normal hub, themselves joined to the goal
\* and reached by the mapper, in that order, before the junction; one drone
TieMap ==
    NamedMap(<< <<"normal", 1>>, <<"normal", 1>>, <<"priority", 1>>,
                <<"normal", 1>>, <<"normal", 1>>, <<"normal", 1>> >>,
             << <<2, 6, 1>>, <<3, 6, 1>>, <<4, 6, 1>>, <<5, 6, 1>>,
                <<5, 2, 1>>, <<5, 3, 1>>, <<5, 4, 1>>, <<1, 5, 1>> >>, 1)

\* start - hub of capacity 1 - goal, 3 drones
BottleneckMap ==
    NamedMap(<< <<"normal", 3>>, <<"normal", 1>>, <<"normal", 1>> >>,
             << <<1, 2, 1>>, <<2, 3, 1>> >>, 3)

\* start joined to the goal and to a hub whose zone type is none of the
\* four, one drone
UnknownZoneMap ==
    NamedMap(<< <<"normal", 1>>, <<"fast", 1>>, <<"normal", 1>> >>,
             << <<1, 3, 1>>, <<1, 2, 1>> >>, 1)

\* start - goal, the connection given capacity 0
ZeroLinkMap ==
    NamedMap(<< <<"normal", 1>>, <<"normal", 1>> >>, << <<1, 2, 0>> >>, 1)

\* start - hub given capacity 0 - goal
ZeroHubMap ==
    NamedMap(<< <<"normal", 1>>, <<"normal", 0>>, <<"normal", 1>> >>,
             << <<1, 2, 1>>, <<2, 3, 1>> >>, 1)

\* two routes of the same length from the start to hub 6, which is joined
\* to the goal: 1 - 2 - 3 (restricted) - 6 and 1 - 4 - 5 - 6; two drones
OvertakeMap ==
    NamedMap(<< <<"normal", 2>>, <<"normal", 1>>, <<"restricted", 1>>,
                <<"normal", 1>>, <<"normal", 1>>, <<"normal", 1>>,
                <<"normal", 1>> >>,
             << <<1, 2, 1>>, <<2, 3, 1>>, <<3, 6, 1>>, <<1, 4, 1>>,
                <<4, 5, 1>>, <<5, 6, 1>>, <<6, 7, 1>> >>, 2)

NamedMaps == {ForkMap, NarrowLinkMap, ChainMap, CrossMap, TransitMap,
              DetourMap, BlockedGoalMap, TieMap, BottleneckMap,
              UnknownZoneMap, ZeroLinkMap, ZeroHubMap, OvertakeMap}

\* the maps the constructors of map.py build
Maps == {m \in {p \in ParamMaps : Tidy(p)} \cup NamedMaps : MapAccepted(m)}

----------------------------------------------------------------------------
(* main.py: ReverseCostBFS(map).run(), the start check, Solver(map, paths).run() *)

\* the locals of MapParser.extract before the first line
ParserStart ==
    /\ ppc = "lines"
    /\ nb_drones = -1
    /\ start = 0
    /\ end = 0
    /\ hub_list = <<>>
    /\ conn_list = <<>>
    /\ error = ""
    /\ field = ""
    /\ parameters = <<>>
    /\ nlines = 0

NoStep == [kind |-> "none", drone |-> 0, from |-> <<>>, to |-> <<>>, idx |-> 0]

Init ==
    /\ map \in Maps
    /\ pc = "bfs"
    /\ paths = EmptyLists(HubNames(map))
    /\ queue = <<Path(map.end, 0)>>
    /\ visited = {}
    /\ dequeues = 0
    /\ location = <<>>
    /\ tmp_state = <<>>
    /\ reserved = <<>>
    /\ con_used = <<>>
    /\ states = <<>>
    /\ di = 0
    /\ last = NoStep
    /\ inserted = paths
    /\ turns = 0
    /\ output = <<>>
    /\ ParserStart

SolverVars == <<location, tmp_state, reserved, con_used, states, di, last,
                turns, output>>
MapperVars == <<paths, queue, visited, dequeues, inserted>>

\* one iteration of the while loop of ReverseCostBFS.run
Dequeue ==
    /\ pc = "bfs"
    /\ Len(queue) > 0
    /\ LET path == Head(queue)
           r == ScanNeighboors(map, path, _get_neighboors(map, path.src), 1,
                               paths, Tail(queue), visited)
       IN /\ paths' = _sort_paths(r[1])
          /\ queue' = r[2]
          /\ visited' = visited \cup {path.src.name}
          /\ inserted' = ScanNeighboors(map, path,
                              _get_neighboors(map, path.src), 1, inserted,
                              Tail(queue), visited)[1]
    /\ dequeues' = dequeues + 1
    /\ UNCHANGED <<map, pc>>
    /\ UNCHANGED SolverVars
    /\ UNCHANGED ParserVars

\* main: "No path from start to end", exit(1)
NoPath ==
    /\ pc = "bfs"
    /\ Len(queue) = 0
    /\ Len(paths[map.start.name]) = 0
    /\ pc' = "nopath"
    /\ UNCHANGED map
    /\ UNCHANGED MapperVars
    /\ UNCHANGED ParserVars
    /\ UNCHANGED SolverVars

\* Solver.__init__ and the lines of Solver.run before the while loop
StartSolver ==
    /\ pc = "bfs"
    /\ Len(queue) = 0
    /\ Len(paths[map.start.name]) # 0
    /\ LET drones == [i \in 1..map.nb_drones |-> Drone(i, map.start.name)]
           s0 == [n \in HubNames(map) \cup ConnNames(map) |->
                     IF n = map.start.name THEN drones ELSE <<>>]
       IN /\ location' = [i \in 1..map.nb_drones |-> map.start.name]
          /\ states' = <<s0>>
          /\ tmp_state' = s0
    /\ reserved' = EmptyLists({map.hubs[i].name : i \in
                      {j \in 1..Len(map.hubs) :
                          map.hubs[j].zone_type = "restricted"}})
    /\ con_used' = EmptyLists(ConnNames(map))
    /\ di' = 0
    /\ last' = NoStep
    /\ turns' = 0
    /\ pc' = "loop"
    /\ UNCHANGED <<map, output>>
    /\ UNCHANGED MapperVars
    /\ UNCHANGED ParserVars

\* mutant: the while condition is <=, one more turn is run once every drone
\* is at the goal
BeginTurn_late ==
    /\ pc = "loop"
    /\ Len(tmp_state[map.end.name]) <= map.nb_drones
    /\ Len(states) <= MaxTurns
    /\ con_used' = EmptyLists(ConnNames(map))
    /\ di' = 1
    /\ pc' = "drones"
    /\ last' = NoStep
    /\ turns' = turns + 1
    /\ UNCHANGED <<map, location, tmp_state, reserved, states, output>>
    /\ UNCHANGED MapperVars
    /\ UNCHANGED ParserVars

\* the while condition holds: a new con_used, the drone loop starts
BeginTurn ==
    /\ pc = "loop"
    /\ Len(tmp_state[map.end.name]) < map.nb_drones
    /\ Len(states) <= MaxTurns
    /\ con_used' = EmptyLists(ConnNames(map))
    /\ di' = 1
    /\ pc' = "drones"
    /\ last' = NoStep
    /\ turns' = turns + 1
    /\ UNCHANGED <<map, location, tmp_state, reserved, states, output>>
    /\ UNCHANGED MapperVars
    /\ UNCHANGED ParserVars

\* paths[drone.location][0] or reserved[...].pop() raises
ArriveFails(loc) ==
    \/ loc \notin DOMAIN paths
    \/ Len(paths[loc]) = 0
    \/ paths[loc][1].src.name \notin DOMAIN reserved
    \/ Len(reserved[paths[loc][1].src.name]) = 0

\* loop body for a drone on a connection (current_hub is None)
Arrive ==
    /\ pc = "drones"
    /\ di <= map.nb_drones
    /\ get_hub_by_name(location[di], map.hubs) = 0
    /\ LET loc == location[di]
           path == paths[loc][1]
       IN IF ArriveFails(loc)
          THEN /\ pc' = "abort"
               /\ UNCHANGED <<reserved, tmp_state, location, states,
                              con_used, last, di>>
          ELSE /\ reserved' = [reserved EXCEPT ![path.src.name] =
                                  SubSeq(@, 1, Len(@) - 1)]
               /\ tmp_state' = MovedState(tmp_state, path, di, loc)
               /\ location' = [location EXCEPT ![di] = path.src.name]
               /\ states' = AliasedHistory(states, di, path.src.name)
               /\ con_used' = [con_used EXCEPT ![loc] = Append(@, di)]
               /\ last' = [kind |-> "arrive", drone |-> di, from |-> loc,
                           to |-> path.src.name, idx |-> 1]
               /\ di' = di + 1
               /\ pc' = pc
    /\ UNCHANGED <<map, turns, output>>
    /\ UNCHANGED MapperVars
    /\ UNCHANGED ParserVars

\* loop body for a drone on a hub: the candidate loop commits a move
Commit ==
    /\ pc = "drones"
    /\ di <= map.nb_drones
    /\ get_hub_by_name(location[di], map.hubs) # 0
    /\ LET loc == location[di]
           current_hub == map.hubs[get_hub_by_name(loc, map.hubs)]
           r == TryCandidates(map, paths, tmp_state, con_used, reserved,
                              current_hub, 1)
           path == paths[loc][r.idx]
       IN /\ r.idx > 0
          /\ reserved' = r.reserved
          /\ tmp_state' = MovedState(tmp_state, path, di, loc)
          /\ location' = [location EXCEPT ![di] = path.src.name]
          /\ states' = AliasedHistory(states, di, path.src.name)
          /\ con_used' = [con_used EXCEPT
                             ![ConnName(map.connections[r.conn])] =
                                 Append(@, di)]
          /\ last' = [kind |-> "commit", drone |-> di, from |-> loc,
                      to |-> path.src.name, idx |-> r.idx]
    /\ di' = di + 1
    /\ UNCHANGED <<map, pc, turns, output>>
    /\ UNCHANGED MapperVars
    /\ UNCHANGED ParserVars

\* loop body for a drone on a hub: no candidate is committed, the drone stays
\* (or _get_current_connection finds no connection and exits)
Stay ==
    /\ pc = "drones"
    /\ di <= map.nb_drones
    /\ get_hub_by_name(location[di], map.hubs) # 0
    /\ LET loc == location[di]
           current_hub == map.hubs[get_hub_by_name(loc, map.hubs)]
           r == TryCandidates(map, paths, tmp_state, con_used, reserved,
                              current_hub, 1)
       IN /\ r.idx <= 0
          /\ reserved' = r.reserved
          /\ last' = [kind |-> "stay", drone |-> di, from |-> loc,
                      to |-> loc, idx |-> 0]
          /\ pc' = IF r.idx < 0 THEN "abort" ELSE pc
    /\ di' = di + 1
    /\ UNCHANGED <<map, location, tmp_state, states, con_used, turns,
                    output>>
    /\ UNCHANGED MapperVars
    /\ UNCHANGED ParserVars

\* states.append(deepcopy(tmp_state))
EndTurn ==
    /\ pc = "drones"
    /\ di > map.nb_drones
    /\ states' = RecordState(states, tmp_state)
    /\ pc' = "loop"
    /\ UNCHANGED <<map, location, tmp_state, reserved, con_used, di, last,
                    turns, output>>
    /\ UNCHANGED MapperVars
    /\ UNCHANGED ParserVars

\* the while condition fails: _export_output, return
Finish ==
    /\ pc = "loop"
    /\ Len(tmp_state[map.end.name]) >= map.nb_drones
    /\ pc' = "done"
    /\ output' = _export_output(map, states)
    /\ UNCHANGED <<map, location, tmp_state, reserved, con_used, states, di,
                    last, turns>>
    /\ UNCHANGED MapperVars
    /\ UNCHANGED ParserVars

Next ==
    \/ Dequeue
    \/ NoPath
    \/ StartSolver
    \/ BeginTurn
    \/ Arrive
    \/ Commit
    \/ Stay
    \/ EndTurn
    \/ Finish

Spec == Init /\ [][Next]_vars

TypeOK == pc \in {"bfs", "nopath", "loop", "drones", "done", "abort"}

----------------------------------------------------------------------------
(* map_parser.py.  A string is the sequence of its characters; a line is   *)
(* taken after _split_line, as its field and its list of parameters, and   *)
(* carries no metadata: a hub is normal with max_drones 1, a connection    *)
(* has max_link_capacity 1.                                                *)

\* str.split("-")
RECURSIVE split(_)
split(s) ==
    IF s = <<>> THEN << <<>> >>
    ELSE LET rest == split(Tail(s))
         IN IF Head(s) = "-" THEN << <<>> >> \o rest
            ELSE << <<Head(s)>> \o rest[1] >> \o Tail(rest)

\* "-" in s
HasDash(s) == \E i \in 1..Len(s) : s[i] = "-"

\* int(token) does not raise ValueError
IsInt(tok) == tok \in {<<"0">>, <<"1">>, <<"2">>}

\* int(token)
ToInt(tok) == IF tok = <<"0">> THEN 0 ELSE IF tok = <<"1">> THEN 1 ELSE 2

\* "hub" in field
ContainsHub(f) == f \in {"hub", "start_hub", "end_hub"}

PHub(name) ==
    [name |-> name, zone_type |-> "normal", max_drones |-> 1,
     neighboors |-> <<>>]

PConnection(src, dst) == [src |-> src, dst |-> dst, max_link_capacity |-> 1]

_find_hub(hub_name, hl) ==
    LET Named(h) == h.name = hub_name IN SelectSeq(hl, Named)

Raised(msg, hl, cl) == [error |-> msg, hub_list |-> hl, conn_list |-> cl]

\* mutant: a name is not looked up among the hubs already added
_add_hub_again(params, hl) ==
    IF HasDash(params[1])
    THEN Raised("is not a valid name", hl, <<>>)
    ELSE IF ~IsInt(params[2]) \/ ~IsInt(params[3])
    THEN Raised("Coordinate must be integers", hl, <<>>)
    ELSE Raised("", Append(hl, PHub(params[1])), <<>>)

\* the error raised ("" for none) and the hub list after _add_hub
_add_hub(params, hl) ==
    IF Len(_find_hub(params[1], hl)) = 0
    THEN IF HasDash(params[1])
         THEN Raised("is not a valid name", hl, <<>>)
         ELSE IF ~IsInt(params[2]) \/ ~IsInt(params[3])
         THEN Raised("Coordinate must be integers", hl, <<>>)
         ELSE Raised("", Append(hl, PHub(params[1])), <<>>)
    ELSE Raised("hub already exist", hl, <<>>)

\* hub.neighboors.append(con) for the first hub of that name
AddNeighboor(hl, name, con) ==
    LET k == CHOOSE i \in 1..Len(hl) :
                 hl[i].name = name /\ \A j \in 1..(i - 1) : hl[j].name # name
    IN [hl EXCEPT ![k].neighboors = Append(@, con)]

\* mutant: the connections already declared are not looked at
_handle_connection_norepeat(params, hl, cl) ==
    IF Len(params) # 1
    THEN Raised("connection only takes one value", hl, cl)
    ELSE LET hubs == split(params[1])
         IN IF Len(hubs) # 2
            THEN Raised("Connections can only connect two hubs", hl, cl)
            ELSE IF Len(_find_hub(hubs[1], hl)) = 0
                    \/ Len(_find_hub(hubs[2], hl)) = 0
            THEN Raised("hub does not exist", hl, cl)
            ELSE LET con0 == PConnection(hubs[2], hubs[1])
                     con1 == PConnection(hubs[1], hubs[2])
                 IN Raised("",
                        AddNeighboor(AddNeighboor(hl, hubs[2], con0),
                                     hubs[1], con1),
                        cl \o <<con0, con1>>)

\* the error raised ("" for none), the hub list and the connection list
\* after _handle_connection
_handle_connection(params, hl, cl) ==
    IF Len(params) # 1
    THEN Raised("connection only takes one value", hl, cl)
    ELSE LET hubs == split(params[1])
         IN IF Len(hubs) # 2
            THEN Raised("Connections can only connect two hubs", hl, cl)
            ELSE IF \E k \in 1..Len(cl) :
                        \/ hubs[1] = cl[k].src /\ hubs[2] = cl[k].dst
                        \/ hubs[2] = cl[k].src /\ hubs[1] = cl[k].dst
            THEN Raised("Connection already exist", hl, cl)
            ELSE IF Len(_find_hub(hubs[1], hl)) = 0
                    \/ Len(_find_hub(hubs[2], hl)) = 0
            THEN Raised("hub does not exist", hl, cl)
            ELSE LET con0 == PConnection(hubs[2], hubs[1])
                     con1 == PConnection(hubs[1], hubs[2])
                 IN Raised("",
                        AddNeighboor(AddNeighboor(hl, hubs[2], con0),
                                     hubs[1], con1),
                        cl \o <<con0, con1>>)

\* the lines fed to the parser
HubNameInputs == {<<"a">>, <<"b">>, <<"c">>, <<"a", "-", "b">>, <<"-">>}

ConnInputs ==
    {<<"a", "-", "b">>, <<"b", "-", "a">>, <<"a", "-", "c">>,
     <<"c", "-", "b">>, <<"a", "-", "a">>, <<"a">>, <<"a", "-">>,
     <<"a", "-", "b", "-", "c">>}

Line(f, ps) == [field |-> f, parameters |-> ps]

LineInputs ==
    {Line("nb_drones", <<t>>) : t \in {<<"2">>, <<"0">>, <<"x">>}}
    \cup {Line("nb_drones", << <<"2">>, <<"2">> >>)}
    \cup {Line(f, <<n, <<"0">>, <<"1">> >>) :
             f \in {"hub", "start_hub", "end_hub"}, n \in HubNameInputs}
    \cup {Line("hub", << <<"a">>, <<"0">> >>),
          Line("hub", << <<"c">>, <<"0">>, <<"x">> >>)}
    \cup {Line("connection", <<c>>) : c \in ConnInputs}
    \cup {Line("connection", << <<"a", "-", "b">>, <<"b">> >>),
          Line("zone", << <<"a">> >>)}

\* raise ParsingError(msg): extract is left, nothing else is changed
Fail(msg) ==
    /\ ppc' = "error"
    /\ error' = msg
    /\ UNCHANGED <<nb_drones, start, end, hub_list, conn_list>>

\* _split_line for the next line of the file
SplitLine(l) ==
    /\ ppc = "lines"
    /\ nlines < MaxLines
    /\ field' = l.field
    /\ parameters' = l.parameters
    /\ nlines' = nlines + 1

ParserFrame ==
    UNCHANGED <<map, pc, paths, queue, visited, dequeues, location,
                tmp_state, reserved, con_used, states, di, last, inserted,
                turns, output>>

\* loop body of extract while nb_drones < 0: _get_nbr_drones
DronesLine ==
    /\ \E l \in LineInputs :
          /\ SplitLine(l)
          /\ nb_drones < 0
          /\ IF l.field # "nb_drones"
             THEN Fail("The first line must be the number of drone")
             ELSE IF Len(l.parameters) # 1
             THEN Fail("nb_drones only takes one value")
             ELSE IF ~IsInt(l.parameters[1])
             THEN Fail("Number of drones must be a positive integer")
             ELSE IF ToInt(l.parameters[1]) <= 0
             THEN Fail("Number of drones must a potitive integer")
             ELSE /\ nb_drones' = ToInt(l.parameters[1])
                  /\ UNCHANGED <<ppc, error, start, end, hub_list,
                                 conn_list>>
    /\ ParserFrame

\* loop body of extract for a hub, start_hub or end_hub line
HubLine ==
    /\ \E l \in LineInputs :
          /\ SplitLine(l)
          /\ nb_drones >= 0
          /\ ContainsHub(l.field)
          /\ IF Len(l.parameters) # 3
             THEN Fail("Hub parameters are incorrect")
             ELSE IF l.field = "start_hub" /\ start # 0
             THEN Fail("You must provide only one start position")
             ELSE IF l.field = "end_hub" /\ end # 0
             THEN Fail("You must provide only one end position")
             ELSE LET r == _add_hub(l.parameters, hub_list)
                  IN IF r.error # "" THEN Fail(r.error)
                     ELSE /\ hub_list' = r.hub_list
                          /\ start' = IF l.field = "start_hub"
                                      THEN Len(r.hub_list) ELSE start
                          /\ end' = IF l.field = "end_hub"
                                    THEN Len(r.hub_list) ELSE end
                          /\ UNCHANGED <<ppc, error, nb_drones, conn_list>>
    /\ ParserFrame

\* loop body of extract for a connection line
ConnectionLine ==
    /\ \E l \in LineInputs :
          /\ SplitLine(l)
          /\ nb_drones >= 0
          /\ l.field = "connection"
          /\ LET r == _handle_connection(l.parameters, hub_list, conn_list)
             IN IF r.error # "" THEN Fail(r.error)
                ELSE /\ hub_list' = r.hub_list
                     /\ conn_list' = r.conn_list
                     /\ UNCHANGED <<ppc, error, nb_drones, start, end>>
    /\ ParserFrame

\* loop body of extract for a line of any other field
UnknownLine ==
    /\ \E l \in LineInputs :
          /\ SplitLine(l)
          /\ nb_drones >= 0
          /\ ~ContainsHub(l.field)
          /\ l.field # "connection"
          /\ Fail("Unknown Field")
    /\ ParserFrame

\* the lines are exhausted: the start and end test, Map(...)
EndOfFile ==
    /\ ppc = "lines"
    /\ IF start = 0 \/ end = 0
       THEN Fail("You must provide both a start and end hub")
       ELSE IF nb_drones < 1
       THEN Fail("A problem occured during map validation")
       ELSE /\ ppc' = "accepted"
            /\ UNCHANGED <<error, nb_drones, start, end, hub_list,
                           conn_list>>
    /\ UNCHANGED <<field, parameters, nlines>>
    /\ ParserFrame

ParserNext ==
    \/ DronesLine
    \/ HubLine
    \/ ConnectionLine
    \/ UnknownLine
    \/ EndOfFile

\* MapParser(file).extract() on its own; the mapper and the scheduler do not
\* run
ParserInit == Init /\ map = NarrowLinkMap

ParserSpec == ParserInit /\ [][ParserNext]_vars

----------------------------------------------------------------------------
(* Reading the history *)

HubNamed(n) == map.hubs[get_hub_by_name(n, map.hubs)]
ConnNamed(n) == map.connections[get_connection_by_name(n, map.connections)]
IsHubName(n) == get_hub_by_name(n, map.hubs) # 0
Ends(cn) == {ConnNamed(cn).hubs[1].name, ConnNamed(cn).hubs[2].name}

Holds(s, n, d) == \E k \in 1..Len(s[n]) : s[n][k].id = d
LocIn(s, d) == CHOOSE n \in DOMAIN s : Holds(s, n, d)
Drones == 1..map.nb_drones
Recorded == 1..Len(states)
AtGoal(s) == Len(s[map.end.name])

----------------------------------------------------------------------------
(* C1: in every recorded state every hub other than the goal holds at most *)
(* its max_drones drones.                                                  *)
C1_HubCapacity ==
    \A k \in Recorded : \A i \in 1..Len(map.hubs) :
        map.hubs[i].name # map.end.name
            => Len(states[k][map.hubs[i].name]) <= map.hubs[i].max_drones

(* C2: within a turn the drones recorded under a connection in con_used    *)
(* never outnumber its max_link_capacity, moves to the goal included.      *)
C2_LinkUsage ==
    \A n \in DOMAIN con_used :
        Len(con_used[n]) <= ConnNamed(n).max_link_capacity

(* C3: in every recorded state the drones located on a connection number   *)
(* at most its max_link_capacity.                                          *)
C3_LinkOccupancy ==
    \A k \in Recorded : \A i \in 1..Len(map.connections) :
        Len(states[k][ConnName(map.connections[i])])
            <= map.connections[i].max_link_capacity

\* a recorded state in which a connection of capacity 2 is full
C3_Witness ==
    \E k \in Recorded : \E i \in 1..Len(map.connections) :
        /\ map.connections[i].max_link_capacity >= 2
        /\ Len(states[k][ConnName(map.connections[i])])
              = map.connections[i].max_link_capacity

(* C4: in every recorded state every drone is in exactly one bucket, the   *)
(* buckets hold nb_drones drones in all, and the location field of every   *)
(* drone record names the bucket that lists it.                            *)
C4_Conservation ==
    \A k \in Recorded :
        /\ \A d \in Drones :
              Cardinality({<<n, j>> \in
                  UNION {{<<m, i>> : i \in 1..Len(states[k][m])} :
                            m \in DOMAIN states[k]} :
                  states[k][n][j].id = d}) = 1
        /\ \A n \in DOMAIN states[k] : \A j \in 1..Len(states[k][n]) :
              /\ states[k][n][j].id \in Drones
              /\ states[k][n][j].location = n

(* C5: on a map whose start reaches the goal the turn loop never reaches a *)
(* deadlock: no turn leaves every drone in place while drones are still    *)
(* short of the goal (such a turn repeats for ever: con_used is reset,     *)
(* tmp_state is the same and reserved has not shrunk).                     *)
C5_NoDeadlock ==
    ~ /\ pc = "loop"
      /\ Len(states) >= 2
      /\ AtGoal(tmp_state) < map.nb_drones
      /\ states[Len(states)] = states[Len(states) - 1]

(* C6: at every turn boundary reserved[r] has one entry per drone located  *)
(* on a connection whose far endpoint is r.                                *)
InTransitTo(r) ==
    {d \in Drones : /\ IsConnName(location[d])
                    /\ paths[location[d]][1].src.name = r}

C6_ReservedMatchesTransit ==
    pc = "loop" =>
        \A r \in DOMAIN reserved :
            Len(reserved[r]) = Cardinality(InTransitTo(r))

(* C7: a drone that leaves a connection and lands on a restricted hub      *)
(* leaves that hub with at most max_drones drones.                         *)
C7_NoOvercommit ==
    (last.kind = "arrive" /\ last.to # map.end.name)
        => Len(tmp_state[last.to]) <= HubNamed(last.to).max_drones

\* the location of drone d in recorded state k
Loc(k, d) == LocIn(states[k], d)

(* C8: between two consecutive recorded states a drone keeps its location, *)
(* or goes to a hub joined to its hub by a connection, or onto a           *)
(* connection incident to its hub, or from a connection to the far hub of  *)
(* that connection (the endpoint other than the hub it came from).         *)
OneHop(k, d) ==
    LET a == Loc(k, d)
        b == Loc(k + 1, d)
    IN \/ a = b
       \/ /\ IsHubName(a) /\ IsHubName(b)
          /\ get_connection(a, b, map.connections) # 0
       \/ /\ IsHubName(a) /\ ~IsHubName(b)
          /\ b \in ConnNames(map) /\ a \in Ends(b)
       \/ /\ ~IsHubName(a) /\ IsHubName(b)
          /\ a \in ConnNames(map)
          /\ k >= 2 /\ Loc(k - 1, d) \in Ends(a)
          /\ b \in Ends(a) /\ b # Loc(k - 1, d)

C8_NoTeleport ==
    \A k \in 1..(Len(states) - 1) : \A d \in Drones : OneHop(k, d)

\* a drone went hub - connection - far hub, and a drone went hub - hub
C8_Witness ==
    /\ \E k \in 2..(Len(states) - 1) : \E d \in Drones :
          /\ ~IsHubName(Loc(k, d))
          /\ IsHubName(Loc(k + 1, d))
          /\ Loc(k + 1, d) # Loc(k - 1, d)
    /\ \E k \in 1..(Len(states) - 1) : \E d \in Drones :
          /\ IsHubName(Loc(k, d)) /\ IsHubName(Loc(k + 1, d))
          /\ Loc(k, d) # Loc(k + 1, d)

(* C9: a restricted hub R is entered from hub h in two turns: the drone is *)
(* on connection h-R in one recorded state and on R in the next; it never  *)
(* goes from a hub to R within a turn, never stays on a connection, never  *)
(* returns to h, never crosses a connection twice within a turn; and on    *)
(* the map start - restricted - goal with one drone the run takes 3 turns. *)
TwoTurnTransit(k, d) ==
    LET a == Loc(k, d)
        b == Loc(k + 1, d)
    IN /\ (/\ IsHubName(b) /\ a # b
           /\ HubNamed(b).zone_type = "restricted") => ~IsHubName(a)
       /\ ~IsHubName(a) =>
             /\ IsHubName(b)
             /\ HubNamed(b).zone_type = "restricted"
             /\ k >= 2
             /\ IsHubName(Loc(k - 1, d))
             /\ Ends(a) = {Loc(k - 1, d), b}
             /\ b # Loc(k - 1, d)

OncePerTurn ==
    \A d \in Drones :
        Cardinality({<<n, j>> \in
            UNION {{<<m, i>> : i \in 1..Len(con_used[m])} :
                      m \in DOMAIN con_used} :
            con_used[n][j] = d}) <= 1

C9_TwoTurnTransit ==
    /\ \A k \in 1..(Len(states) - 1) : \A d \in Drones :
          TwoTurnTransit(k, d)
    /\ OncePerTurn
    /\ (map = TransitMap /\ pc = "done") =>
          /\ Len(states) = 4
          /\ [k \in 1..4 |-> Loc(k, 1)] = << <<1>>, <<1, 2>>, <<2>>, <<3>> >>

\* the run on the map start - restricted - goal is over
C9_Witness ==
    /\ map = TransitMap
    /\ pc = "done"
    /\ \E k \in 2..(Len(states) - 1) : ~IsHubName(Loc(k, 1))

(* C10: a drone in the goal bucket of a recorded state is in the goal      *)
(* bucket of every later state, and of the state being built.              *)
C10_GoalAccumulates ==
    /\ \A k \in 1..(Len(states) - 1) : \A d \in Drones :
          Holds(states[k], map.end.name, d)
              => Holds(states[k + 1], map.end.name, d)
    /\ \A d \in Drones :
          (Len(states) >= 1 /\ Holds(states[Len(states)], map.end.name, d))
              => Holds(tmp_state, map.end.name, d)

\* a drone has been at the goal through three recorded states while the
\* others were still moving
C10_Witness ==
    \E k \in 1..(Len(states) - 2) : \E d \in Drones :
        /\ Holds(states[k], map.end.name, d)
        /\ Holds(states[k + 2], map.end.name, d)
        /\ AtGoal(states[k + 1]) < map.nb_drones

----------------------------------------------------------------------------
(* C11: no entry of a candidate list has a blocked hub as its src, nor a   *)
(* connection waypoint that leads to a blocked hub; no recorded state has  *)
(* a drone on a blocked hub; and on the map start, blocked, normal, goal   *)
(* the drone goes start, normal hub, goal in 2 turns.                      *)
C11_NoBlockedCandidate ==
    /\ \A n \in DOMAIN paths : \A k \in 1..Len(paths[n]) :
          /\ paths[n][k].src.zone_type # "blocked"
          /\ IsHubName(paths[n][k].src.name) =>
                HubNamed(paths[n][k].src.name).zone_type # "blocked"
          /\ ~IsHubName(paths[n][k].src.name) =>
                \A e \in Ends(paths[n][k].src.name) :
                    HubNamed(e).zone_type # "blocked"
    /\ \A k \in Recorded : \A i \in 1..Len(map.hubs) :
          map.hubs[i].zone_type = "blocked"
              => states[k][map.hubs[i].name] = <<>>
    /\ (map = DetourMap /\ pc = "done") =>
          /\ Len(states) = 3
          /\ [k \in 1..3 |-> Loc(k, 1)] = << <<1>>, <<3>>, <<4>> >>

----------------------------------------------------------------------------
(* Reading the candidate table *)

MapperDone == pc # "bfs" \/ queue = <<>>

Passable == {n \in HubNames(map) : HubNamed(n).zone_type # "blocked"}

Adjacent(a, b) == get_connection(a, b, map.connections) # 0

\* number of connections of the shortest walk from a hub of frontier to the
\* goal through passable hubs, -1 when there is none; d is the number of
\* connections already walked
RECURSIVE HopsFrom(_, _, _)
HopsFrom(frontier, seen, d) ==
    IF map.end.name \in frontier THEN d
    ELSE LET nxt == {n \in Passable \ seen :
                        \E f \in frontier : Adjacent(f, n)}
         IN IF nxt = {} THEN -1
            ELSE HopsFrom(nxt, seen \cup nxt, d + 1)

\* length of the shortest path from hub name s to the goal that avoids
\* blocked hubs, -1 when there is none
Hops(s) == IF s \in Passable THEN HopsFrom({s}, {s}, 0) ELSE -1

\* the hub a connection waypoint listed under hub name h leads to
FarEnd(cn, h) == CHOOSE e \in Ends(cn) : e # h

(* C12: once the mapper is done, every entry (s, c) of the list of a hub   *)
(* has c = 1 + the length of the shortest path from s to the goal that     *)
(* avoids blocked hubs (a connection waypoint is one step before the       *)
(* restricted hub it leads to).                                            *)
C12_CostIsDistancePlusOne ==
    MapperDone =>
        \A h \in HubNames(map) : \A k \in 1..Len(paths[h]) :
            LET s == paths[h][k].src.name
                c == paths[h][k].cost
            IN IF IsHubName(s) THEN c = Hops(s) + 1
               ELSE c = Hops(FarEnd(s, h)) + 2

(* C13: once the mapper is done no candidate list holds two entries with   *)
(* the same src name, connection waypoints included.                       *)
C13_NoDuplicateSource ==
    MapperDone =>
        \A n \in DOMAIN paths : \A i, j \in 1..Len(paths[n]) :
            i # j => paths[n][i].src.name # paths[n][j].src.name

(* C14: once the mapper is done paths[start] is empty iff no path from the *)
(* start hub to the goal avoids the blocked hubs; then the caller reports  *)
(* "no path" and the scheduler is never run.                               *)
C14_EmptyIffUnreachable ==
    /\ MapperDone =>
          (paths[map.start.name] = <<>> <=> Hops(map.start.name) = -1)
    /\ (MapperDone /\ paths[map.start.name] = <<>>) =>
          /\ pc \in {"bfs", "nopath"}
          /\ states = <<>>
    /\ pc = "nopath" => (MapperDone /\ paths[map.start.name] = <<>>)

----------------------------------------------------------------------------
(* Reading a step of the drone loop *)

\* the drone loop is about to process a drone standing on a hub
OnHub == pc = "drones" /\ di <= map.nb_drones /\ IsHubName(location[di])

\* candidate idx of hub hn is valid in the current state
ValidFrom(hn, idx) ==
    LET h == HubNamed(hn)
        path == paths[hn][idx]
        ci == _get_current_connection(map, h, path)
    IN ci # 0 /\ _is_path_valid(map, map.connections[ci], tmp_state, path,
                                con_used, reserved, h)[1]

\* candidate idx of the hub of that drone is valid in the current state
ValidNow(idx) == ValidFrom(location[di], idx)

(* C15: for a drone on hub h that has a second candidate to weigh, the     *)
(* wait time of the wait-versus-detour rule is best.cost + the number of   *)
(* drones now at best - the max_link_capacity of the connection between h  *)
(* and best, where best = paths[h][0].                                     *)
C15_WaitTime ==
    (OnHub /\ Len(paths[location[di]]) >= 2) =>
        LET h == HubNamed(location[di])
            best == paths[h.name][1]
            ci == _get_current_connection(map, h, best)
        IN /\ ci # 0
           /\ _compute_wait_time(map, paths, tmp_state, best)
                 = best.cost + Len(tmp_state[best.src.name])
                     - map.connections[ci].max_link_capacity

\* candidate idx of the hub of the drone about to be processed passes: it is
\* valid and it is the best one or costs no more than the wait time
Passes(idx) ==
    LET cands == paths[location[di]]
    IN /\ ValidNow(idx)
       /\ \/ idx = 1
          \/ cands[idx].cost
                <= _compute_wait_time(map, paths, tmp_state, cands[1])

FirstPassing ==
    LET ok == {i \in 1..Len(paths[location[di]]) : Passes(i)}
    IN IF ok = {} THEN 0 ELSE CHOOSE i \in ok : \A j \in ok : i <= j

(* C16: the step of a drone standing on hub h commits the first candidate  *)
(* of paths[h] that is valid and is the best one or costs no more than the *)
(* wait time, and moves the drone to it; when no candidate passes the      *)
(* drone stays where it is.                                                *)
C16_FirstPassingCandidate ==
    [][(OnHub /\ di' = di + 1) =>
          IF FirstPassing # 0
          THEN /\ last'.kind = "commit"
               /\ last'.idx = FirstPassing
               /\ location'[di] = paths[location[di]][FirstPassing].src.name
               /\ Holds(tmp_state', location'[di], di)
          ELSE /\ last'.kind = "stay"
               /\ location' = location
               /\ tmp_state' = tmp_state]_vars

\* a drone has just taken a candidate that is not the best one of its hub
C16_Witness ==
    /\ last.kind = "commit"
    /\ last.idx >= 2
    /\ location[last.drone] = paths[last.from][last.idx].src.name

\* candidates i and j of hub hn cost the same, the first leads to a priority
\* hub and the second does not, and both are valid in the current state
PriorityTie(hn, i, j) ==
    /\ paths[hn][i].cost = paths[hn][j].cost
    /\ paths[hn][i].src.zone_type = "priority"
    /\ paths[hn][j].src.zone_type # "priority"
    /\ ValidFrom(hn, i)
    /\ ValidFrom(hn, j)

(* C17, as stated: whenever the list of the hub of a drone holds a         *)
(* priority and a non-priority candidate of equal cost that are both       *)
(* valid, the step of the drone moves it to the priority one.              *)
C17_MovesToPriority ==
    [][(OnHub /\ di' = di + 1) =>
          \A i, j \in 1..Len(paths[location[di]]) :
              PriorityTie(location[di], i, j) =>
                  /\ last'.kind = "commit"
                  /\ location'[di] = paths[location[di]][i].src.name]_vars

(* C17, amended: with a priority and a non-priority candidate of equal     *)
(* cost both valid, the step of the drone never moves it to the            *)
(* non-priority one, the priority one stands before it in the list, and    *)
(* when the priority one is the best candidate the drone moves to it.      *)
C17_PriorityPreferred ==
    [][(OnHub /\ di' = di + 1) =>
          \A i, j \in 1..Len(paths[location[di]]) :
              PriorityTie(location[di], i, j) =>
                  /\ i < j
                  /\ ~(last'.kind = "commit" /\ last'.idx = j)
                  /\ location'[di] # paths[location[di]][j].src.name
                  /\ i = 1 =>
                        /\ last'.kind = "commit"
                        /\ location'[di] = paths[location[di]][i].src.name]_vars

\* a drone has just moved to a priority hub, the best candidate of its hub,
\* while a hub that is not priority, of the same cost, was valid as well
C17_Witness ==
    /\ last.kind = "commit"
    /\ last.idx = 1
    /\ location[last.drone] = paths[last.from][1].src.name
    /\ \E j \in 2..Len(paths[last.from]) : PriorityTie(last.from, 1, j)

SameKey(p, q) ==
    /\ p.cost = q.cost
    /\ (p.src.zone_type = "priority") = (q.src.zone_type = "priority")

\* list s holds the entries of list t, those of equal key in the order they
\* have in t
KeepsOrderOf(s, t) ==
    /\ Len(s) = Len(t)
    /\ \E f \in [1..Len(s) -> 1..Len(s)] :
          /\ \A i, j \in 1..Len(s) : i # j => f[i] # f[j]
          /\ \A i \in 1..Len(s) : s[i] = t[f[i]]
          /\ \A i, j \in 1..Len(s) :
                (i < j /\ SameKey(s[i], s[j])) => f[i] < f[j]

(* C18: once the mapper is done every candidate list is in non-decreasing  *)
(* order of cost, among entries of equal cost those whose src is a         *)
(* priority hub come before the others, and entries equal in both are in   *)
(* the order in which the mapper appended them.                            *)
C18_SortedCandidates ==
    MapperDone =>
        \A n \in DOMAIN paths :
            /\ \A i, j \in 1..Len(paths[n]) :
                  i < j =>
                      /\ paths[n][i].cost <= paths[n][j].cost
                      /\ (/\ paths[n][i].cost = paths[n][j].cost
                          /\ paths[n][j].src.zone_type = "priority")
                            => paths[n][i].src.zone_type = "priority"
            /\ DOMAIN inserted = DOMAIN paths
            /\ KeepsOrderOf(paths[n], inserted[n])

\* the mapper is done, the sort has moved an entry of some list, and some
\* list holds two different entries of equal cost and zone class
C18_Witness ==
    /\ MapperDone
    /\ \E n \in DOMAIN paths : paths[n] # inserted[n]
    /\ \E n \in DOMAIN paths : \E i, j \in 1..Len(paths[n]) :
          /\ i < j
          /\ SameKey(paths[n][i], paths[n][j])
          /\ paths[n][i].src.name # paths[n][j].src.name

----------------------------------------------------------------------------
\* the identifiers of the drones of a bucket, in order
Ids(bucket) == [k \in 1..Len(bucket) |-> bucket[k].id]

(* C19: history[0] has the nb_drones drones in the bucket of the start hub *)
(* and every other bucket empty; one state is appended per turn, so that   *)
(* history[k] is the state after k turns; and the run stops at the first   *)
(* state whose goal bucket holds nb_drones drones: no state but the last   *)
(* has all the drones at the goal.                                         *)
C19_History ==
    pc \in {"loop", "drones", "done"} =>
        /\ Ids(states[1][map.start.name]) = [k \in 1..map.nb_drones |-> k]
        /\ \A n \in DOMAIN states[1] :
              n # map.start.name => states[1][n] = <<>>
        /\ DOMAIN states[1] = HubNames(map) \cup ConnNames(map)
        /\ pc = "drones" => Len(states) = turns
        /\ pc \in {"loop", "done"} =>
              /\ Len(states) = turns + 1
              /\ \A n \in DOMAIN tmp_state :
                    Ids(states[Len(states)][n]) = Ids(tmp_state[n])
        /\ \A k \in 1..(Len(states) - 1) : AtGoal(states[k]) < map.nb_drones
        /\ pc = "drones" => AtGoal(states[Len(states)]) < map.nb_drones
        /\ pc = "done" => AtGoal(states[Len(states)]) = map.nb_drones

\* a run of several drones is over after at least three turns
C19_Witness ==
    /\ pc = "done"
    /\ map.nb_drones >= 2
    /\ turns >= 3
    /\ Len(states) = turns + 1
    /\ AtGoal(states[Len(states)]) = map.nb_drones

(* C20: a recorded state is never changed by a later step: every state of  *)
(* the history, history[0] included, keeps its buckets and the location of *)
(* each of its drone records.                                              *)
C20_HistoryImmutable ==
    [][/\ Len(states') >= Len(states)
       /\ \A k \in 1..Len(states) : states'[k] = states[k]]_vars

----------------------------------------------------------------------------
\* the locations of drone d through the recorded states
Route(d) == [k \in 1..Len(states) |-> Loc(k, d)]

(* C22, as stated: on start - hub of capacity 1 - goal with 3 drones the   *)
(* run takes 5 turns and the history has 6 states.                         *)
C22_FiveTurns ==
    (map = BottleneckMap /\ pc = "done") =>
        /\ turns = 5
        /\ Len(states) = 6

(* C22, amended: on start - hub of capacity 1 - goal with 3 drones the run *)
(* takes 4 turns and the history has 5 states; the middle hub never holds  *)
(* more than one drone, the others queue at the start: each drone enters   *)
(* the middle hub in the turn in which the drone before it leaves it.      *)
C22_FourTurns ==
    map = BottleneckMap =>
        /\ pc \in {"loop", "drones", "done"} => Len(tmp_state[<<2>>]) <= 1
        /\ pc = "done" =>
              /\ turns = 4
              /\ Len(states) = 5
              /\ Route(1) = << <<1>>, <<2>>, <<3>>, <<3>>, <<3>> >>
              /\ Route(2) = << <<1>>, <<1>>, <<2>>, <<3>>, <<3>> >>
              /\ Route(3) = << <<1>>, <<1>>, <<1>>, <<2>>, <<3>> >>

\* the run on start - hub of capacity 1 - goal is over
C22_Witness ==
    /\ map = BottleneckMap
    /\ pc = "done"
    /\ AtGoal(states[Len(states)]) = 3

(* C23: on start (5 drones) - goal joined by one connection of capacity 2  *)
(* two drones advance in each turn until fewer remain, and the run takes 3 *)
(* turns: the goal holds 2, 4 and 5 drones after turns 1, 2 and 3.         *)
C23_TwoPerTurn ==
    map = NarrowLinkMap =>
        /\ \A k \in Recorded :
              AtGoal(states[k]) = IF 2 * (k - 1) < 5 THEN 2 * (k - 1) ELSE 5
        /\ pc = "done" => (turns = 3 /\ Len(states) = 4)

(* C24: on the fork map of main.py (start, path_a, path_b priority,        *)
(* junction, goal; connections of capacity 1; 3 drones) the two candidates *)
(* of the junction cost the same, path_b first; drone 1 goes through       *)
(* path_b; the run takes 5 turns and ends with the 3 drones at the goal.   *)
C24_Fork ==
    map = ForkMap =>
        /\ MapperDone =>
              /\ Len(paths[<<4>>]) = 2
              /\ paths[<<4>>][1].src.name = <<3>>
              /\ paths[<<4>>][2].src.name = <<2>>
              /\ paths[<<4>>][1].cost = paths[<<4>>][2].cost
              /\ Hops(<<3>>) = Hops(<<2>>)
        /\ pc = "done" =>
              /\ turns = 5
              /\ Len(states) = 6
              /\ Route(1) = << <<1>>, <<4>>, <<3>>, <<5>>, <<5>>, <<5>> >>
              /\ Ids(states[6][<<5>>]) = <<1, 2, 3>>
              /\ \A n \in DOMAIN states[6] : n # <<5>> => states[6][n] = <<>>

\* the run on the fork map is over
C24_Witness ==
    /\ map = ForkMap
    /\ pc = "done"
    /\ Len(output) = 5

----------------------------------------------------------------------------
\* the set of tokens of a line of the log
Tokens(line) == {line[i] : i \in 1..Len(line)}

(* C25: the movement log has one line per turn and none for the initial    *)
(* state; line k holds one token <<d, location of d in history[k]>> for    *)
(* each drone d whose location in history[k] differs from its location in  *)
(* history[k-1], and no other token.                                       *)
C25_MovementLog ==
    pc = "done" =>
        /\ Len(output) = Len(states) - 1
        /\ Len(output) = turns
        /\ \A k \in 1..Len(output) :
              /\ Tokens(output[k]) =
                    {<<d, Loc(k + 1, d)>> : d \in
                        {e \in Drones : Loc(k + 1, e) # Loc(k, e)}}
              /\ Len(output[k]) = Cardinality(Tokens(output[k]))

\* a log of several lines, one of which has a token for some drones and
\* none for a drone that stayed where it was
C25_Witness ==
    /\ pc = "done"
    /\ Len(output) >= 3
    /\ \E k \in 1..Len(output) :
          /\ Len(output[k]) >= 1
          /\ \E d \in Drones : Loc(k + 1, d) = Loc(k, d)
    /\ \E k \in 1..Len(output) : \E i \in 1..Len(output[k]) :
          IsConnName(output[k][i][2])

----------------------------------------------------------------------------
(* C26: a candidate that is the goal is valid whatever the number of       *)
(* drones the goal holds, and the step of a drone that has it in its list  *)
(* moves the drone to the goal: the goal may hold more drones than its     *)
(* max_drones, up to nb_drones.                                            *)
C26_GoalUnbounded ==
    [][(OnHub /\ di' = di + 1) =>
          \A i \in 1..Len(paths[location[di]]) :
              paths[location[di]][i].src.name = map.end.name =>
                  /\ ValidNow(i)
                  /\ last'.kind = "commit"
                  /\ location'[di] = map.end.name
                  /\ Len(tmp_state'[map.end.name])
                        = Len(tmp_state[map.end.name]) + 1]_vars

\* a drone has just moved to a goal that already held its max_drones, and
\* the goal now holds every drone
C26_Witness ==
    /\ last.kind = "commit"
    /\ last.to = map.end.name
    /\ Len(tmp_state[map.end.name]) > map.end.max_drones
    /\ Len(tmp_state[map.end.name]) = map.nb_drones

(* C27: in every turn the drones are processed in the order D1..DN, and    *)
(* once the drones processed earlier in the turn have taken the last free  *)
(* slot of a connection, a drone that chooses its move later in the turn   *)
(* does not take that connection: it stays or takes another candidate.     *)
C27_EarliestTakesSlot ==
    [][(pc = "drones" /\ pc' = "drones" /\ di <= map.nb_drones) =>
          /\ di' = di + 1
          /\ \A c \in DOMAIN con_used : \A k \in 1..Len(con_used[c]) :
                con_used[c][k] < di
          /\ OnHub =>
                \A c \in DOMAIN con_used :
                    Len(con_used[c]) >= ConnNamed(c).max_link_capacity
                        => con_used'[c] = con_used[c]]_vars


\* capacities of at least 1, hub names all different, no connection from a
\* hub to itself, every zone type one of the four
WellFormed(m) ==
    /\ m.nb_drones >= 1
    /\ \A i \in 1..Len(m.hubs) :
          /\ m.hubs[i].max_drones >= 1
          /\ m.hubs[i].zone_type \in Zones
          /\ \A j \in 1..Len(m.hubs) :
                m.hubs[i].name = m.hubs[j].name => i = j
    /\ \A i \in 1..Len(m.connections) :
          /\ m.connections[i].max_link_capacity >= 1
          /\ m.connections[i].hubs[1].name # m.connections[i].hubs[2].name

(* C29: a graph with a hub or connection capacity below 1, duplicate hub   *)
(* names, a self-loop connection or an unknown zone type is rejected by    *)
(* the model constructors and never accepted and routed: every graph whose *)
(* drones have been routed to the end is free of all four faults.          *)
C29_GraphGuards == pc = "done" => WellFormed(map)


\* the hub a candidate listed under hub name h leads to
Target(p, h) == IF IsHubName(p.src.name) THEN p.src.name
                ELSE FarEnd(p.src.name, h)

Cost(n) == get_hub_travel_cost(HubNamed(n))

(* C30: the travel cost depends on the zone type alone: 1 for normal, 1    *)
(* for priority, 2 for restricted, -1 for blocked; and the mapper treats   *)
(* exactly the hubs of negative cost as impassable: once it is done no     *)
(* candidate leads to a hub of negative cost, no such hub was visited, and *)
(* every hub of non-negative cost joined to a visited hub was visited.     *)
C30_TravelCost ==
    /\ \A i \in 1..Len(map.hubs) :
          LET z == map.hubs[i].zone_type
              c == get_hub_travel_cost(map.hubs[i])
          IN /\ z \in {"normal", "priority"} => c = 1
             /\ z = "restricted" => c = 2
             /\ z = "blocked" => c = -1
    /\ MapperDone =>
          /\ \A h \in HubNames(map) : \A k \in 1..Len(paths[h]) :
                Cost(Target(paths[h][k], h)) >= 0
          /\ \A n \in visited : Cost(n) >= 0
          /\ \A p \in visited : \A n \in HubNames(map) :
                (Adjacent(p, n) /\ Cost(n) >= 0) => n \in visited


----------------------------------------------------------------------------
(* Waypoints of restricted hubs, turn order, error paths, termination *)

IsRestricted(n) == IsHubName(n) /\ HubNamed(n).zone_type = "restricted"

(* C31: once the mapper is done every hub name is a key of paths; no list  *)
(* of a hub has a restricted hub as src; an entry of paths[h] named after  *)
(* a connection is the waypoint of the connection joining h to a           *)
(* restricted hub R, paths[that connection] is a one-entry list whose src  *)
(* is R, and the cost of the waypoint is that recorded cost plus one; and  *)
(* a hub joined to a restricted hub closer to the goal has its waypoint.   *)
C31_Waypoints ==
    MapperDone =>
        /\ HubNames(map) \subseteq DOMAIN paths
        /\ \A h \in HubNames(map) : \A k \in 1..Len(paths[h]) :
              LET s == paths[h][k].src.name
              IN /\ ~IsRestricted(s)
                 /\ IsConnName(s) =>
                       /\ h \in Ends(s)
                       /\ IsRestricted(FarEnd(s, h))
                       /\ s \in DOMAIN paths
                       /\ Len(paths[s]) = 1
                       /\ paths[s][1].src.name = FarEnd(s, h)
                       /\ paths[h][k].cost = paths[s][1].cost + 1
        /\ \A h, r \in HubNames(map) :
              (/\ Adjacent(h, r)
               /\ IsRestricted(r)
               /\ Hops(r) >= 0
               /\ Hops(r) < Hops(h)) =>
                  \E k \in 1..Len(paths[h]) :
                      /\ IsConnName(paths[h][k].src.name)
                      /\ FarEnd(paths[h][k].src.name, h) = r

\* the state recorded at the end of the previous turn
TurnStart == states[Len(states)]

(* C32: the capacity checks of a turn read the state in progress.  A drone *)
(* on a hub moves to a candidate other than the goal only if fewer drones  *)
(* than its max_drones are on it now, whoever stood there when the turn    *)
(* began; and when the best candidate is a hub other than the goal with a  *)
(* free slot now and a connection not yet used up, the drone takes it,     *)
(* also when that hub was full when the turn began.                        *)
C32_InProgressState ==
    [][OnHub =>
          LET cands == paths[location[di]]
          IN /\ (last'.kind = "commit" /\ last'.to # map.end.name) =>
                   Len(tmp_state[last'.to])
                       < cands[last'.idx].src.max_drones
             /\ (/\ cands # <<>>
                 /\ IsHubName(cands[1].src.name)
                 /\ cands[1].src.name # map.end.name
                 /\ Len(tmp_state[cands[1].src.name])
                       < cands[1].src.max_drones
                 /\ Len(con_used[ConnName(map.connections[
                           get_connection(location[di], cands[1].src.name,
                                          map.connections)])])
                       < map.connections[
                           get_connection(location[di], cands[1].src.name,
                                          map.connections)].max_link_capacity)
                   => /\ last'.kind = "commit"
                      /\ location'[di] = cands[1].src.name]_vars

\* a drone has just moved to a hub, not the goal, that was full when the
\* turn began and that a lower-numbered drone has left in this turn
C32_Witness ==
    /\ pc = "drones"
    /\ last.kind = "commit"
    /\ IsHubName(last.to)
    /\ last.to # map.end.name
    /\ Len(TurnStart[last.to]) >= HubNamed(last.to).max_drones
    /\ \E i \in 1..(last.drone - 1) :
          Holds(TurnStart, last.to, i) /\ location[i] # last.to

\* a drone has just left a hub, not the goal, that was full when the turn
\* began, and a lower-numbered drone whose only candidate is that hub, over
\* a connection nobody used in this turn, has stayed where it was
C32_Refused ==
    /\ pc = "drones"
    /\ last.kind = "commit"
    /\ IsHubName(last.from)
    /\ last.from # map.end.name
    /\ Len(TurnStart[last.from]) >= HubNamed(last.from).max_drones
    /\ \E i \in 1..(last.drone - 1) :
          /\ IsHubName(location[i])
          /\ Holds(TurnStart, location[i], i)
          /\ Len(paths[location[i]]) = 1
          /\ paths[location[i]][1].src.name = last.from
          /\ con_used[ConnName(map.connections[
                get_connection(location[i], last.from,
                               map.connections)])] = <<>>

(* C33: a drone on a hub for which no candidate is committed keeps its     *)
(* location and its bucket, and the candidates that were evaluated and not *)
(* committed leave the state, con_used and the reserved table as they      *)
(* were: a step that commits nothing changes none of them, and a step that *)
(* commits a candidate changes the reserved table by the reservation of    *)
(* that candidate alone.                                                   *)
C33_NoEffectUnlessCommitted ==
    [][OnHub =>
          /\ last'.kind = "stay" =>
                /\ location' = location
                /\ tmp_state' = tmp_state
                /\ con_used' = con_used
                /\ reserved' = reserved
          /\ last'.kind = "commit" =>
                reserved' =
                    IF IsConnName(last'.to)
                    THEN [reserved EXCEPT ![FarEnd(last'.to, location[di])]
                                              = Append(@, 0)]
                    ELSE reserved]_vars

(* C34: the scheduler never reaches its internal-error paths: it never     *)
(* aborts, every candidate of a hub resolves to a connection of the map,   *)
(* every drone location is a key of the state, and the connection a drone  *)
(* is on has a non-empty list in paths.                                    *)
C34_NoInternalError ==
    /\ pc # "abort"
    /\ pc \in {"loop", "drones", "done"} =>
          /\ \A h \in HubNames(map) : \A k \in 1..Len(paths[h]) :
                _get_current_connection(map, HubNamed(h), paths[h][k]) # 0
          /\ \A d \in Drones :
                /\ location[d] \in DOMAIN tmp_state
                /\ ~IsHubName(location[d]) =>
                      /\ location[d] \in DOMAIN paths
                      /\ paths[location[d]] # <<>>

\* a drone is on a connection and the drone loop is about to process it
C34_Witness ==
    /\ pc = "drones"
    /\ di <= map.nb_drones
    /\ ~IsHubName(location[di])
    /\ location[di] \in ConnNames(map)

\* the hubs the candidates of hub h lead to
Succ(h) == {Target(paths[h][k], h) : k \in 1..Len(paths[h])}

\* the hubs reached from the set s by following candidates, at most n times
RECURSIVE Follow(_, _)
Follow(s, n) ==
    IF n = 0 THEN s ELSE Follow(s \cup UNION {Succ(x) : x \in s}, n - 1)

\* hop distance to the goal of a location; a drone on a connection is
\* counted at the hub it is going to
HopDist(loc) ==
    IF IsHubName(loc) THEN Hops(loc) ELSE Hops(paths[loc][1].src.name)

(* C35: the candidate table is acyclic.  Whenever the mapper gives the     *)
(* list of hub h a new entry, the hub that entry leads to has been         *)
(* dequeued and h has not; following candidates from a hub never comes     *)
(* back to it; the list of the goal is empty; and the hop distance to the  *)
(* goal of a drone never grows from one recorded state to the next.        *)
C35_Acyclic ==
    /\ [][\A h \in HubNames(map) :
             paths'[h] # paths[h] =>
                 /\ h \notin visited'
                 /\ \A k \in 1..Len(paths'[h]) :
                       Target(paths'[h][k], h) \in visited']_vars
    /\ [](/\ \A h \in HubNames(map) :
                h \notin Follow(Succ(h), Len(map.hubs))
          /\ paths[map.end.name] = <<>>
          /\ \A d \in 1..Len(location) : \A k \in 1..(Len(states) - 1) :
                HopDist(Loc(k + 1, d)) <= HopDist(Loc(k, d)))

\* every drone is at the goal after a walk of at least two hops, and the
\* candidates of some hub lead to hubs that have candidates of their own
C35_Witness ==
    /\ pc = "done"
    /\ Len(states) >= 3
    /\ \E h \in HubNames(map) : \E t \in Succ(h) :
          Len(paths[h]) >= 2 /\ Succ(t) # {}

\* the drones on a connection leading to the restricted hub r
InTransit(r) ==
    {d \in Drones :
        ~IsHubName(location[d]) /\ paths[location[d]][1].src.name = r}

(* C36: when a drone on a connection is about to leave it, the list        *)
(* reserved[far hub] is not empty, so the pop does not fail; and at every  *)
(* moment of the schedule reserved[r] has at least as many entries as      *)
(* there are drones on the connections leading to r.                       *)
C36_ReleaseNeverFails ==
    pc \in {"loop", "drones", "done", "abort"} =>
        /\ (pc = "drones" /\ di <= map.nb_drones
                /\ ~IsHubName(location[di])) =>
              /\ paths[location[di]][1].src.name \in DOMAIN reserved
              /\ reserved[paths[location[di]][1].src.name] # <<>>
        /\ \A r \in DOMAIN reserved :
              Len(reserved[r]) >= Cardinality(InTransit(r))

\* a drone has just left its connection for a restricted hub, its
\* reservation released, while another drone is still on its way to that hub
C36_Witness ==
    /\ pc = "drones"
    /\ last.kind = "arrive"
    /\ InTransit(last.to) # {}
    /\ reserved[last.to] # <<>>

\* the mapper reads neither the number of drones nor a capacity: the maps
\* of one drone whose capacities, the one of the start hub apart, are all 1,
\* and the named maps
MapperMaps ==
    {m \in Maps :
        \/ m \in NamedMaps
        \/ /\ m.nb_drones = 1
           /\ \A i \in 2..Len(m.hubs) : m.hubs[i].max_drones = 1
           /\ \A i \in 1..Len(m.connections) :
                 m.connections[i].max_link_capacity = 1}

MapperInit == Init /\ map \in MapperMaps

\* ReverseCostBFS.run alone: its while loop goes on as long as the queue is
\* not empty
MapperSpec == MapperInit /\ [][Dequeue]_vars /\ WF_vars(Dequeue)

\* number of connections of the map that end at hub name n
Degree(n) ==
    Cardinality({i \in 1..Len(map.connections) :
                    n \in {map.connections[i].hubs[1].name,
                           map.connections[i].hubs[2].name}})

RECURSIVE SumDegrees(_)
SumDegrees(i) ==
    IF i > Len(map.hubs) THEN 0
    ELSE Degree(map.hubs[i].name) + SumDegrees(i + 1)

(* C37: the mapper terminates on every graph, cyclic ones included: its    *)
(* queue is empty at some point; a record dequeued for a hub already visited *)
(* enqueues nothing; and the dequeues done plus the records still queued   *)
(* never exceed 1 plus the sum of the degrees of the hubs.                 *)
C37_MapperTerminates ==
    /\ <>MapperDone
    /\ [][(pc = "bfs" /\ queue # <<>> /\ Head(queue).src.name \in visited)
             => queue' = Tail(queue)]_vars
    /\ [](dequeues + Len(queue) <= 1 + SumDegrees(1))

\* the mapper is about to dequeue a record of a hub it has already visited,
\* on a map that has a cycle
C37_Witness ==
    /\ pc = "bfs"
    /\ queue # <<>>
    /\ Head(queue).src.name \in visited
    /\ Len(map.connections) >= Len(map.hubs)

----------------------------------------------------------------------------
(* Reading the parser *)

Declared == {hub_list[i].name : i \in 1..Len(hub_list)}

\* the extract loop has just read a line of that field after the nb_drones
\* line
JustRead(f) ==
    ppc = "lines" /\ nb_drones >= 0 /\ nlines' = nlines + 1 /\ field' = f

(* C38: a connection line that does not consist of exactly two hub names,  *)
(* that names a hub not declared before it, or that repeats a connection   *)
(* already declared, in either order of its ends, raises a ParsingError    *)
(* and adds nothing; so the connection list never holds two records from   *)
(* one hub to another, nor more than the two records (one each way) of one *)
(* connection for a pair of hubs.                                          *)
C38_ConnectionLines ==
    /\ [][JustRead("connection") =>
             LET ps == parameters'
                 names == split(ps[1])
                 Repeats == \E k \in 1..Len(conn_list) :
                     {conn_list[k].src, conn_list[k].dst}
                         = {names[1], names[2]}
             IN (\/ Len(ps) # 1
                 \/ Len(names) # 2
                 \/ \E i \in 1..Len(names) : names[i] \notin Declared
                 \/ Repeats) =>
                    /\ ppc' = "error"
                    /\ conn_list' = conn_list
                    /\ hub_list' = hub_list]_vars
    /\ [](\A a, b \in Declared :
             a # b =>
                /\ Cardinality({k \in 1..Len(conn_list) :
                       conn_list[k].src = a /\ conn_list[k].dst = b}) <= 1
                /\ Cardinality({k \in 1..Len(conn_list) :
                       {conn_list[k].src, conn_list[k].dst} = {a, b}}) <= 2)

\* a connection line was refused because it repeats, its ends the other way
\* round, a connection declared before
C38_Witness ==
    /\ ppc = "error"
    /\ error = "Connection already exist"
    /\ Len(parameters) = 1
    /\ parameters[1] = <<"b", "-", "a">>
    /\ conn_list = <<PConnection(<<"b">>, <<"a">>),
                     PConnection(<<"a">>, <<"b">>)>>

(* C39: a hub line whose name holds '-' or is the name of a hub already    *)
(* added, a start_hub line after a start hub was set and an end_hub line   *)
(* after an end hub was set raise a ParsingError and leave the hub list,   *)
(* the start and the end as they were; and a map is accepted only with one *)
(* start hub and one end hub, two different hubs of a list whose names are *)
(* all different and hold no '-'.                                          *)
C39_HubLines ==
    /\ [][(\E f \in {"hub", "start_hub", "end_hub"} : JustRead(f)) =>
             ((\/ Len(parameters') # 3
               \/ HasDash(parameters'[1])
               \/ parameters'[1] \in Declared
               \/ field' = "start_hub" /\ start # 0
               \/ field' = "end_hub" /\ end # 0) =>
                  /\ ppc' = "error"
                  /\ hub_list' = hub_list
                  /\ start' = start
                  /\ end' = end)]_vars
    /\ [](/\ \A i, j \in 1..Len(hub_list) :
                /\ ~HasDash(hub_list[i].name)
                /\ hub_list[i].name = hub_list[j].name => i = j
          /\ ppc = "accepted" =>
                /\ start \in 1..Len(hub_list)
                /\ end \in 1..Len(hub_list)
                /\ start # end)

\* a hub line was refused for a name already used, after a start hub, an
\* end hub and a third hub had been added
C39_Witness ==
    /\ ppc = "error"
    /\ error = "hub already exist"
    /\ start # 0
    /\ end # 0
    /\ Len(hub_list) = 3
    /\ parameters[1] \in Declared

====
